---------------------------- MODULE Spec2Model ----------------------------
(***************************************************************************)
(* A model of the terminal-title template engine,                          *)
(* src/extensions/TerminalTitle/src/TemplateString.ts: the two-state lexer *)
(* `lex`, the segment parser `TemplateString._parse`, the formatter map    *)
(* and the two renderers `formatHtml` and `formatDiagnosticHtml`.          *)
(*                                                                         *)
(* A JavaScript string is modelled as a sequence of one-character strings, *)
(* so "${a:b}" is << "$", "{", "a", ":", "b", "}" >>; `length` is Len and  *)
(* `slice(n)` is SubSeq.                                                   *)
(***************************************************************************)
EXTENDS Integers, Sequences, FiniteSets, TLC

VARIABLES
    _template,      \* TemplateString._template (line 44)
    _segments,      \* TemplateString._segments (line 45)
    _formatterMap,  \* TemplateString._formatterMap (line 47)
    _tokenIndex,    \* TemplateString._tokenIndex (line 62)
    _tokens,        \* TemplateString._tokens (line 63)
    op,             \* the method of TemplateString called last, with its arguments
    ret,            \* what that call returned or threw
    calls           \* the FieldFormatter methods that call invoked, in order

vars == << _template, _segments, _formatterMap, _tokenIndex, _tokens, op, ret, calls >>

\* JavaScript's null and undefined. A string is a sequence of one-character
\* strings and a Segment[] or Token[] is a sequence of records, so each gets a
\* null of its own shape that no value of the type equals.
nullString == << "null" >>
nullSegments == << [type |-> "null"] >>
undefinedTokens == << [type |-> "undefined"] >>
undefined == "undefined"

\* How a call ended: a void method returned, a value was returned, or an
\* exception was thrown.
void == [kind |-> "void"]

Returned(v) == [kind |-> "return", value |-> v]
Threw(e) == [kind |-> "throw", value |-> e]

-----------------------------------------------------------------------------
\* Bounds of the inputs.

\* The number of pieces a generated template is made of.
MaxPieces == 3
\* The length of a namespace or a key of a generated `${ns:key}` template.
MaxSym == 2

\* The characters templates are drawn from: the five characters the lexer's
\* rules name and one that none of them names.
Alphabet == { "$", "{", "}", ":", "\\", "a" }

-----------------------------------------------------------------------------
\* The lexer.

\* enum LexerState
NORMAL == "NORMAL"
FIELD == "FIELD"

\* enum TokenType
\* TokenType.STRING (STRING alone is a reserved word of TLA+)
STRING_TOKEN == "STRING"
ESCAPE_DOLLAR == "ESCAPE_DOLLAR"
OPEN_BRACKET == "OPEN_BRACKET"
SYMBOL == "SYMBOL"
COLON == "COLON"
CLOSE_BRACKET == "CLOSE_BRACKET"
EOF == "EOF"

\* The regular expressions of the rules come in two shapes: "^" followed by
\* one-character classes (a literal prefix), and "^[^...]+" (a maximal,
\* non-empty run of characters outside a class).
Literal(chars) == [shape |-> "literal", chars |-> chars, class |-> {}]
RunOutside(class) == [shape |-> "run", chars |-> << >>, class |-> class]

\* The length of the longest prefix of input outside class.
RECURSIVE RunLength(_, _)
RunLength(input, class) ==
    IF input = << >> \/ Head(input) \in class
    THEN 0
    ELSE 1 + RunLength(Tail(input), class)

\* input.match(re): the matched prefix matchResult[0], or null.
RegExpMatch(input, re) ==
    IF re.shape = "literal"
    THEN IF Len(input) >= Len(re.chars) /\ SubSeq(input, 1, Len(re.chars)) = re.chars
         THEN re.chars
         ELSE nullString
    ELSE IF RunLength(input, re.class) > 0
         THEN SubSeq(input, 1, RunLength(input, re.class))
         ELSE nullString

\* NormalParseRules without its last rule, the fallback for a lone backslash.
NormalParseRules_noLoneBackslash ==
    << [match |-> Literal(<< "$", "{" >>), type |-> OPEN_BRACKET, newState |-> FIELD],
       [match |-> Literal(<< "\\", "$" >>), type |-> ESCAPE_DOLLAR, newState |-> NORMAL],
       [match |-> RunOutside({ "$", "\\" }), type |-> STRING_TOKEN, newState |-> NORMAL],
       [match |-> Literal(<< "$" >>), type |-> STRING_TOKEN, newState |-> NORMAL] >>

NormalParseRules ==
    << [match |-> Literal(<< "$", "{" >>), type |-> OPEN_BRACKET, newState |-> FIELD],
       [match |-> Literal(<< "\\", "$" >>), type |-> ESCAPE_DOLLAR, newState |-> NORMAL],
       [match |-> RunOutside({ "$", "\\" }), type |-> STRING_TOKEN, newState |-> NORMAL],
       [match |-> Literal(<< "$" >>), type |-> STRING_TOKEN, newState |-> NORMAL],
       [match |-> Literal(<< "\\" >>), type |-> STRING_TOKEN, newState |-> NORMAL] >>

\* FieldParseRules with a symbol that also stops at "$", as if written
\* "^[^:}$]+".
FieldParseRules_dollarEndsSymbol ==
    << [match |-> RunOutside({ ":", "}", "$" }), type |-> SYMBOL, newState |-> FIELD],
       [match |-> Literal(<< ":" >>), type |-> COLON, newState |-> FIELD],
       [match |-> Literal(<< "}" >>), type |-> CLOSE_BRACKET, newState |-> NORMAL] >>

\* FieldParseRules whose "}" leaves the lexer in the FIELD state.
FieldParseRules_closeStaysInField ==
    << [match |-> RunOutside({ ":", "}" }), type |-> SYMBOL, newState |-> FIELD],
       [match |-> Literal(<< ":" >>), type |-> COLON, newState |-> FIELD],
       [match |-> Literal(<< "}" >>), type |-> CLOSE_BRACKET, newState |-> FIELD] >>

FieldParseRules ==
    << [match |-> RunOutside({ ":", "}" }), type |-> SYMBOL, newState |-> FIELD],
       [match |-> Literal(<< ":" >>), type |-> COLON, newState |-> FIELD],
       [match |-> Literal(<< "}" >>), type |-> CLOSE_BRACKET, newState |-> NORMAL] >>

LexerStateRules(state) ==
    IF state = NORMAL THEN NormalParseRules ELSE FieldParseRules

\* The rules of a state that match input; the for loop of lex takes the first.
MatchingRules(state, input) ==
    { i \in 1..Len(LexerStateRules(state)) :
        RegExpMatch(input, LexerStateRules(state)[i].match) # nullString }

FirstOf(S) == CHOOSE i \in S : \A j \in S : i <= j

\* The while loop of lex, from currentInput, state and the tokens pushed so
\* far. The result is the tokens, or the exception thrown.
RECURSIVE lexLoop(_, _, _)
lexLoop(currentInput, state, result) ==
    IF Len(currentInput) = 0
    THEN Returned(result)
    ELSE IF MatchingRules(state, currentInput) = {}
         THEN Threw("Unable to parse!")
         ELSE LET rule == LexerStateRules(state)[FirstOf(MatchingRules(state, currentInput))]
                  matched == RegExpMatch(currentInput, rule.match)
              IN  lexLoop(SubSeq(currentInput, Len(matched) + 1, Len(currentInput)),
                          rule.newState,
                          Append(result, [type |-> rule.type, text |-> matched]))

lex(input) == lexLoop(input, NORMAL, << >>)

-----------------------------------------------------------------------------
\* The segment parser. The cursor this._tokenIndex is threaded through the
\* operators: each takes the tokens and the cursor and gives back what it
\* built together with the cursor it leaves.

\* _peekTokenType that reports EOF one token early.
_peekTokenType_offByOne(tokens, tokenIndex) ==
    IF Len(tokens) <= tokenIndex + 1 THEN EOF ELSE tokens[tokenIndex + 1].type

_peekTokenType(tokens, tokenIndex) ==
    IF Len(tokens) = tokenIndex THEN EOF ELSE tokens[tokenIndex + 1].type

\* this._tokenIndex++; return this._tokens[this._tokenIndex-1]
_takeToken(tokens, tokenIndex) ==
    [token |-> tokens[tokenIndex + 1], tokenIndex |-> tokenIndex + 1]

textTokens == { STRING_TOKEN, ESCAPE_DOLLAR }

\* textLoop that counts one column for a STRING token, whatever its length.
RECURSIVE textLoop_countsTokens(_, _, _)
textLoop_countsTokens(tokens, tokenIndex, textSegment) ==
    IF _peekTokenType(tokens, tokenIndex) \in textTokens
    THEN LET taken == _takeToken(tokens, tokenIndex)
             token == taken.token
         IN  IF token.type = STRING_TOKEN
             THEN textLoop_countsTokens(tokens, taken.tokenIndex,
                                        [textSegment EXCEPT !.text = @ \o token.text,
                                                            !.endColumn = @ + 1])
             ELSE textLoop_countsTokens(tokens, taken.tokenIndex,
                                        [textSegment EXCEPT !.text = @ \o << "$" >>,
                                                            !.endColumn = @ + 2])
    ELSE [textSegment |-> textSegment, tokenIndex |-> tokenIndex]

\* textLoop that keeps the text of an ESCAPE_DOLLAR token, backslash included.
RECURSIVE textLoop_keepsBackslash(_, _, _)
textLoop_keepsBackslash(tokens, tokenIndex, textSegment) ==
    IF _peekTokenType(tokens, tokenIndex) \in textTokens
    THEN LET taken == _takeToken(tokens, tokenIndex)
             token == taken.token
         IN  IF token.type = STRING_TOKEN
             THEN textLoop_keepsBackslash(tokens, taken.tokenIndex,
                                          [textSegment EXCEPT !.text = @ \o token.text,
                                                              !.endColumn = @ + Len(token.text)])
             ELSE textLoop_keepsBackslash(tokens, taken.tokenIndex,
                                          [textSegment EXCEPT !.text = @ \o token.text,
                                                              !.endColumn = @ + 2])
    ELSE [textSegment |-> textSegment, tokenIndex |-> tokenIndex]

\* The while loop of _processTextStateTokens.
RECURSIVE textLoop(_, _, _)
textLoop(tokens, tokenIndex, textSegment) ==
    IF _peekTokenType(tokens, tokenIndex) \in textTokens
    THEN LET taken == _takeToken(tokens, tokenIndex)
             token == taken.token
         IN  IF token.type = STRING_TOKEN
             THEN textLoop(tokens, taken.tokenIndex,
                           [textSegment EXCEPT !.text = @ \o token.text,
                                               !.endColumn = @ + Len(token.text)])
             ELSE textLoop(tokens, taken.tokenIndex,
                           [textSegment EXCEPT !.text = @ \o << "$" >>,
                                               !.endColumn = @ + 2])
    ELSE [textSegment |-> textSegment, tokenIndex |-> tokenIndex]

_processTextStateTokens(tokens, tokenIndex) ==
    LET done == textLoop(tokens, tokenIndex,
                         [text |-> << >>, type |-> "text", startColumn |-> 0, endColumn |-> 0])
    IN  [segments |-> IF Len(done.textSegment.text) # 0 THEN << done.textSegment >> ELSE << >>,
         tokenIndex |-> done.tokenIndex]

fieldTokenTypeList == << OPEN_BRACKET, SYMBOL, COLON, SYMBOL, CLOSE_BRACKET >>

\* The for loop of _checkFieldTokens from the k-th type of the list on; the
\* cursor is restored by the caller keeping its own.
RECURSIVE checkLoop(_, _, _)
checkLoop(tokens, tokenIndex, k) ==
    IF k > Len(fieldTokenTypeList)
    THEN TRUE
    ELSE IF _peekTokenType(tokens, tokenIndex) # fieldTokenTypeList[k]
         THEN FALSE
         ELSE checkLoop(tokens, _takeToken(tokens, tokenIndex).tokenIndex, k + 1)

_checkFieldTokens(tokens, tokenIndex) == checkLoop(tokens, tokenIndex, 1)

\* _processCompleteField that leaves "${" and "}" out of the width.
_processCompleteField_noBrackets(tokens, tokenIndex) ==
    LET t1 == _takeToken(tokens, tokenIndex)
        t2 == _takeToken(tokens, t1.tokenIndex)
        t3 == _takeToken(tokens, t2.tokenIndex)
        t4 == _takeToken(tokens, t3.tokenIndex)
        t5 == _takeToken(tokens, t4.tokenIndex)
        namespace == t2.token.text
        key == t4.token.text
    IN  [segment |-> [type |-> "field",
                      namespace |-> namespace,
                      key |-> key,
                      startColumn |-> 0,
                      endColumn |-> Len(namespace) + 1 + Len(key)],
         tokenIndex |-> t5.tokenIndex]

_processCompleteField(tokens, tokenIndex) ==
    LET t1 == _takeToken(tokens, tokenIndex)        \* TokenType.OPEN_BRACKET
        t2 == _takeToken(tokens, t1.tokenIndex)     \* TokenType.SYMBOL
        t3 == _takeToken(tokens, t2.tokenIndex)     \* TokenType.COLON
        t4 == _takeToken(tokens, t3.tokenIndex)     \* TokenType.SYMBOL
        t5 == _takeToken(tokens, t4.tokenIndex)     \* TokenType.CLOSE_BRACKET
        namespace == t2.token.text
        key == t4.token.text
    IN  [segment |-> [type |-> "field",
                      namespace |-> namespace,
                      key |-> key,
                      startColumn |-> 0,
                      endColumn |-> 2 + Len(namespace) + 1 + Len(key) + 1],
         tokenIndex |-> t5.tokenIndex]

\* nonFieldTypes under which a bad field stops at "${" as well.
nonFieldTypes_withOpenBracket == { STRING_TOKEN, ESCAPE_DOLLAR, OPEN_BRACKET, EOF }

nonFieldTypes == { STRING_TOKEN, ESCAPE_DOLLAR, EOF }

\* badLoop that ends the bad field with its "}".
RECURSIVE badLoop_stopsAfterClose(_, _, _)
badLoop_stopsAfterClose(tokens, tokenIndex, badInput) ==
    IF _peekTokenType(tokens, tokenIndex) \notin nonFieldTypes
    THEN LET taken == _takeToken(tokens, tokenIndex)
         IN  IF taken.token.type = CLOSE_BRACKET
             THEN [badInput |-> badInput \o taken.token.text,
                   tokenIndex |-> taken.tokenIndex]
             ELSE badLoop_stopsAfterClose(tokens, taken.tokenIndex,
                                          badInput \o taken.token.text)
    ELSE [badInput |-> badInput, tokenIndex |-> tokenIndex]

\* The while loop of _processBadField.
RECURSIVE badLoop(_, _, _)
badLoop(tokens, tokenIndex, badInput) ==
    IF _peekTokenType(tokens, tokenIndex) \notin nonFieldTypes
    THEN LET taken == _takeToken(tokens, tokenIndex)
         IN  badLoop(tokens, taken.tokenIndex, badInput \o taken.token.text)
    ELSE [badInput |-> badInput, tokenIndex |-> tokenIndex]

_processBadField(tokens, tokenIndex) ==
    LET done == badLoop(tokens, tokenIndex, << >>)
    IN  [segment |-> [type |-> "error",
                      text |-> done.badInput,
                      startColumn |-> 0,
                      endColumn |-> Len(done.badInput),
                      error |-> << >>],
         tokenIndex |-> done.tokenIndex]

_processFieldStateTokens(tokens, tokenIndex) ==
    IF _peekTokenType(tokens, tokenIndex) = EOF
    THEN [segments |-> << >>, tokenIndex |-> tokenIndex]
    ELSE IF _checkFieldTokens(tokens, tokenIndex)
         THEN LET f == _processCompleteField(tokens, tokenIndex)
              IN  [segments |-> << f.segment >>, tokenIndex |-> f.tokenIndex]
         ELSE LET b == _processBadField(tokens, tokenIndex)
              IN  [segments |-> << b.segment >>, tokenIndex |-> b.tokenIndex]

\* The while loop of _parse.
RECURSIVE parseLoop(_, _, _)
parseLoop(tokens, tokenIndex, result) ==
    IF _peekTokenType(tokens, tokenIndex) # EOF
    THEN LET t == _processTextStateTokens(tokens, tokenIndex)
             f == _processFieldStateTokens(tokens, t.tokenIndex)
         IN  parseLoop(tokens, f.tokenIndex, result \o t.segments \o f.segments)
    ELSE [result |-> result, tokenIndex |-> tokenIndex]

\* "Correct the start and end column info": the for loop of _parse from the
\* k-th segment on, with i the running column.
RECURSIVE correctColumns(_, _, _)
correctColumns(result, k, i) ==
    IF k > Len(result)
    THEN result
    ELSE correctColumns([result EXCEPT ![k].startColumn = i,
                                       ![k].endColumn = i + result[k].endColumn],
                        k + 1,
                        i + result[k].endColumn)

\* _parse(template): the segments returned, with the tokens and the cursor it
\* leaves in the object; or the exception of lex, thrown before either is
\* assigned.
_parse(template) ==
    LET lexed == lex(template)
    IN  IF lexed.kind = "throw"
        THEN lexed
        ELSE LET looped == parseLoop(lexed.value, 0, << >>)
             IN  [kind |-> "return",
                  value |-> correctColumns(looped.result, 1, 0),
                  tokens |-> lexed.value,
                  tokenIndex |-> looped.tokenIndex]

-----------------------------------------------------------------------------
\* The templates given to setTemplateString.

\* The pieces templates are put together from: the single characters, and
\* the openings, the escape, the ns:key and the whole field of the syntax.
Pieces ==
    { << c >> : c \in Alphabet }
        \cup { << "$", "{" >>, << "\\", "$" >>, << "a", ":", "a" >>,
               << "$", "{", "a", ":", "a", "}" >> }

\* The concatenations of at most n pieces.
RECURSIVE PieceStrings(_)
PieceStrings(n) ==
    IF n = 0
    THEN { << >> }
    ELSE LET shorter == PieceStrings(n - 1)
         IN  shorter \cup { s \o p : s \in shorter, p \in Pieces }

\* The non-empty strings of at most n characters that hold no ":" and no "}".
RECURSIVE Symbols(_)
Symbols(n) ==
    IF n = 1
    THEN { << c >> : c \in Alphabet \ { ":", "}" } }
    ELSE LET shorter == Symbols(n - 1)
         IN  shorter \cup { s \o << c >> : s \in shorter, c \in Alphabet \ { ":", "}" } }

FieldTemplate(ns, key) == << "$", "{" >> \o ns \o << ":" >> \o key \o << "}" >>

FieldTemplates == { FieldTemplate(ns, key) : ns \in Symbols(MaxSym), key \in Symbols(MaxSym) }

\* The example of the engine's documentation:
\* Hello ${user:name}, balance: \$${acct:bal}
ExampleTemplate ==
    << "H", "e", "l", "l", "o", " ", "$", "{", "u", "s", "e", "r", ":", "n", "a", "m", "e", "}",
       ",", " ", "b", "a", "l", "a", "n", "c", "e", ":", " ", "\\", "$",
       "$", "{", "a", "c", "c", "t", ":", "b", "a", "l", "}" >>

Templates == PieceStrings(MaxPieces) \cup FieldTemplates \cup { ExampleTemplate }

-----------------------------------------------------------------------------
\* The formatter map and the formatters.

\* String.prototype.toLowerCase, on the letters the model's namespaces and
\* keys use.
toLowerCaseChar(c) ==
    CASE c = "A" -> "a"
      [] c = "B" -> "b"
      [] c = "K" -> "k"
      [] OTHER -> c

toLowerCase(s) == [i \in 1..Len(s) |-> toLowerCaseChar(s[i])]

\* A Map<string, FieldFormatter> is the set of its entries, one per key.
MapSet(map, key, value) ==
    { e \in map : e.key # key } \cup { [key |-> key, value |-> value] }

MapGet(map, key) ==
    IF \E e \in map : e.key = key
    THEN (CHOOSE e \in map : e.key = key).value
    ELSE undefined

\* The FieldFormatter objects of the host: two of them, told apart by what
\* they return. F1 returns markup around the key and reports no error; F2
\* returns text with a raw "&" and reports an error for the key "K".
Formatters == { "F1", "F2" }

FieldFormatter_formatHtml(formatter, key) ==
    IF formatter = "F1"
    THEN << "<", "b", ">" >> \o key
    ELSE << "2", "&" >> \o key

FieldFormatter_getErrorMessage(formatter, key) ==
    IF formatter = "F2" /\ key = << "K" >>
    THEN << "b", "a", "d", " ", "k", "e", "y" >>
    ELSE nullString

Call(formatter, method, key) == [formatter |-> formatter, method |-> method, key |-> key]

-----------------------------------------------------------------------------
\* The renderers.

\* he.encode of one character, with the library's default options: the
\* characters & < > " ' become hexadecimal character references (so does the
\* backquote, which no string of the model holds) and the other printable
\* ASCII characters are kept.
heEncodeChar(c) ==
    CASE c = "&" -> << "&", "#", "x", "2", "6", ";" >>
      [] c = "<" -> << "&", "#", "x", "3", "C", ";" >>
      [] c = ">" -> << "&", "#", "x", "3", "E", ";" >>
      [] c = "\"" -> << "&", "#", "x", "2", "2", ";" >>
      [] c = "'" -> << "&", "#", "x", "2", "7", ";" >>
      [] OTHER -> << c >>

RECURSIVE heEncode(_)
heEncode(text) ==
    IF text = << >>
    THEN << >>
    ELSE heEncodeChar(Head(text)) \o heEncode(Tail(text))

\* Array.prototype.join("") of an array of strings.
RECURSIVE join(_)
join(parts) ==
    IF parts = << >>
    THEN << >>
    ELSE Head(parts) \o join(Tail(parts))

spanText ==
    << "<", "s", "p", "a", "n", " ", "c", "l", "a", "s", "s", "=", "\"", "s",
       "e", "g", "m", "e", "n", "t", "_", "t", "e", "x", "t", "\"", ">" >>

spanField ==
    << "<", "s", "p", "a", "n", " ", "c", "l", "a", "s", "s", "=", "\"", "s",
       "e", "g", "m", "e", "n", "t", "_", "f", "i", "e", "l", "d", "\"",
       ">" >>

spanError ==
    << "<", "s", "p", "a", "n", " ", "c", "l", "a", "s", "s", "=", "\"", "s",
       "e", "g", "m", "e", "n", "t", "_", "e", "r", "r", "o", "r", "\"",
       ">" >>

spanEnd == << "<", "/", "s", "p", "a", "n", ">" >>

unknownOpen == << "U", "n", "k", "n", "o", "w", "n", " ", "'" >>

unknownClose == << "'" >>

\* formatHtmlSegment that renders the raw text of an Error segment.
formatHtmlSegment_errorShowsText(segment, formatterMap) ==
    CASE segment.type = "text" ->
            [html |-> heEncode(segment.text), calls |-> << >>]
      [] segment.type = "field" ->
            LET namespace == toLowerCase(segment.namespace)
                formatter == MapGet(formatterMap, namespace)
            IN  IF formatter = undefined
                THEN [html |-> << >>, calls |-> << >>]
                ELSE [html |-> FieldFormatter_formatHtml(formatter, segment.key),
                      calls |-> << Call(formatter, "formatHtml", segment.key) >>]
      [] segment.type = "error" ->
            [html |-> heEncode(segment.text), calls |-> << >>]

\* The callback of formatHtml on one segment: the string it returns and the
\* formatter methods it calls.
formatHtmlSegment(segment, formatterMap) ==
    CASE segment.type = "text" ->
            [html |-> heEncode(segment.text), calls |-> << >>]
      [] segment.type = "field" ->
            LET namespace == toLowerCase(segment.namespace)
                formatter == MapGet(formatterMap, namespace)
            IN  IF formatter = undefined
                THEN [html |-> << >>, calls |-> << >>]
                ELSE [html |-> FieldFormatter_formatHtml(formatter, segment.key),
                      calls |-> << Call(formatter, "formatHtml", segment.key) >>]
      [] segment.type = "error" ->
            [html |-> << >>, calls |-> << >>]

\* formatDiagnosticHtmlSegment that wraps the text of a Text segment as it is.
formatDiagnosticHtmlSegment_rawText(segment, formatterMap) ==
    CASE segment.type = "text" ->
            [html |-> spanText \o segment.text \o spanEnd, calls |-> << >>]
      [] segment.type = "field" ->
            LET namespace == toLowerCase(segment.namespace)
                formatter == MapGet(formatterMap, namespace)
                errorMsg == FieldFormatter_getErrorMessage(formatter, segment.key)
            IN  IF formatter = undefined
                THEN [html |-> spanError \o unknownOpen \o segment.namespace
                                  \o unknownClose \o spanEnd,
                      calls |-> << >>]
                ELSE IF errorMsg = nullString
                     THEN [html |-> spanField
                                       \o FieldFormatter_formatHtml(formatter, segment.key)
                                       \o spanEnd,
                           calls |-> << Call(formatter, "getErrorMessage", segment.key),
                                        Call(formatter, "formatHtml", segment.key) >>]
                     ELSE [html |-> spanError \o errorMsg \o spanEnd,
                           calls |-> << Call(formatter, "getErrorMessage", segment.key) >>]
      [] segment.type = "error" ->
            [html |-> spanError \o unknownOpen \o segment.text \o unknownClose \o spanEnd,
             calls |-> << >>]

\* formatDiagnosticHtmlSegment that renders the value of a field whatever
\* getErrorMessage returns.
formatDiagnosticHtmlSegment_ignoresError(segment, formatterMap) ==
    CASE segment.type = "text" ->
            [html |-> spanText \o heEncode(segment.text) \o spanEnd, calls |-> << >>]
      [] segment.type = "field" ->
            LET namespace == toLowerCase(segment.namespace)
                formatter == MapGet(formatterMap, namespace)
                errorMsg == FieldFormatter_getErrorMessage(formatter, segment.key)
            IN  IF formatter = undefined
                THEN [html |-> spanError \o unknownOpen \o segment.namespace
                                  \o unknownClose \o spanEnd,
                      calls |-> << >>]
                ELSE [html |-> spanField
                                  \o FieldFormatter_formatHtml(formatter, segment.key)
                                  \o spanEnd,
                      calls |-> << Call(formatter, "getErrorMessage", segment.key),
                                   Call(formatter, "formatHtml", segment.key) >>]
      [] segment.type = "error" ->
            [html |-> spanError \o unknownOpen \o segment.text \o unknownClose \o spanEnd,
             calls |-> << >>]

\* The callback of formatDiagnosticHtml on one segment.
formatDiagnosticHtmlSegment(segment, formatterMap) ==
    CASE segment.type = "text" ->
            [html |-> spanText \o heEncode(segment.text) \o spanEnd, calls |-> << >>]
      [] segment.type = "field" ->
            LET namespace == toLowerCase(segment.namespace)
                formatter == MapGet(formatterMap, namespace)
                errorMsg == FieldFormatter_getErrorMessage(formatter, segment.key)
            IN  IF formatter = undefined
                THEN [html |-> spanError \o unknownOpen \o segment.namespace
                                  \o unknownClose \o spanEnd,
                      calls |-> << >>]
                ELSE IF errorMsg = nullString
                     THEN [html |-> spanField
                                       \o FieldFormatter_formatHtml(formatter, segment.key)
                                       \o spanEnd,
                           calls |-> << Call(formatter, "getErrorMessage", segment.key),
                                        Call(formatter, "formatHtml", segment.key) >>]
                     ELSE [html |-> spanError \o errorMsg \o spanEnd,
                           calls |-> << Call(formatter, "getErrorMessage", segment.key) >>]
      [] segment.type = "error" ->
            [html |-> spanError \o unknownOpen \o segment.text \o unknownClose \o spanEnd,
             calls |-> << >>]

\* this._segments.map(callback): the strings and the calls of all segments.
mapHtml(segments, formatterMap) ==
    [i \in 1..Len(segments) |-> formatHtmlSegment(segments[i], formatterMap).html]

mapHtmlCalls(segments, formatterMap) ==
    [i \in 1..Len(segments) |-> formatHtmlSegment(segments[i], formatterMap).calls]

mapDiagnosticHtml(segments, formatterMap) ==
    [i \in 1..Len(segments) |-> formatDiagnosticHtmlSegment(segments[i], formatterMap).html]

mapDiagnosticHtmlCalls(segments, formatterMap) ==
    [i \in 1..Len(segments) |-> formatDiagnosticHtmlSegment(segments[i], formatterMap).calls]

-----------------------------------------------------------------------------
\* The operations of TemplateString.

Init ==
    /\ _template = nullString
    /\ _segments = nullSegments
    /\ _formatterMap = {}
    /\ _tokenIndex = 0
    /\ _tokens = undefinedTokens
    /\ op = [name |-> "new"]
    /\ ret = void
    /\ calls = << >>

\* setTemplateString that starts over with an empty formatter map.
setTemplateString_newMap(template) ==
    LET parsed == _parse(template)
    IN  /\ _template' = template
        /\ IF parsed.kind = "throw"
           THEN /\ ret' = parsed
                /\ UNCHANGED << _segments, _tokens, _tokenIndex >>
           ELSE /\ _segments' = parsed.value
                /\ _tokens' = parsed.tokens
                /\ _tokenIndex' = parsed.tokenIndex
                /\ ret' = void
        /\ op' = [name |-> "setTemplateString", template |-> template]
        /\ calls' = << >>
        /\ _formatterMap' = {}

\* setTemplateString that parses only the first template it is given.
setTemplateString_parsesOnce(template) ==
    LET parsed == _parse(template)
    IN  /\ _template' = template
        /\ IF parsed.kind = "throw"
           THEN /\ ret' = parsed
                /\ UNCHANGED << _segments, _tokens, _tokenIndex >>
           ELSE /\ _segments' = IF _segments = nullSegments THEN parsed.value ELSE _segments
                /\ _tokens' = parsed.tokens
                /\ _tokenIndex' = parsed.tokenIndex
                /\ ret' = void
        /\ op' = [name |-> "setTemplateString", template |-> template]
        /\ calls' = << >>
        /\ UNCHANGED _formatterMap

setTemplateString(template) ==
    LET parsed == _parse(template)
    IN  /\ _template' = template
        /\ IF parsed.kind = "throw"
           THEN /\ ret' = parsed
                /\ UNCHANGED << _segments, _tokens, _tokenIndex >>
           ELSE /\ _segments' = parsed.value
                /\ _tokens' = parsed.tokens
                /\ _tokenIndex' = parsed.tokenIndex
                /\ ret' = void
        /\ op' = [name |-> "setTemplateString", template |-> template]
        /\ calls' = << >>
        /\ UNCHANGED _formatterMap

\* addFormatter that keys the map by the namespace as given.
addFormatter_keepsCase(namespace, formatter) ==
    /\ _formatterMap' = MapSet(_formatterMap, namespace, formatter)
    /\ op' = [name |-> "addFormatter", namespace |-> namespace, formatter |-> formatter]
    /\ ret' = void
    /\ calls' = << >>
    /\ UNCHANGED << _template, _segments, _tokenIndex, _tokens >>

addFormatter(namespace, formatter) ==
    /\ _formatterMap' = MapSet(_formatterMap, toLowerCase(namespace), formatter)
    /\ op' = [name |-> "addFormatter", namespace |-> namespace, formatter |-> formatter]
    /\ ret' = void
    /\ calls' = << >>
    /\ UNCHANGED << _template, _segments, _tokenIndex, _tokens >>

getTemplateString ==
    /\ ret' = Returned(_template)
    /\ op' = [name |-> "getTemplateString"]
    /\ calls' = << >>
    /\ UNCHANGED << _template, _segments, _formatterMap, _tokenIndex, _tokens >>

\* this._segments.map on the null _segments of a fresh object is a TypeError.
formatHtml ==
    /\ IF _segments = nullSegments
       THEN /\ ret' = Threw("TypeError")
            /\ calls' = << >>
       ELSE /\ ret' = Returned(join(mapHtml(_segments, _formatterMap)))
            /\ calls' = join(mapHtmlCalls(_segments, _formatterMap))
    /\ op' = [name |-> "formatHtml"]
    /\ UNCHANGED << _template, _segments, _formatterMap, _tokenIndex, _tokens >>

\* formatDiagnosticHtml that writes the message of an Error segment into its
\* error field.
formatDiagnosticHtml_fillsError ==
    /\ IF _segments = nullSegments
       THEN /\ ret' = Threw("TypeError")
            /\ calls' = << >>
            /\ UNCHANGED _segments
       ELSE /\ ret' = Returned(join(mapDiagnosticHtml(_segments, _formatterMap)))
            /\ calls' = join(mapDiagnosticHtmlCalls(_segments, _formatterMap))
            /\ _segments' = [i \in 1..Len(_segments) |->
                                IF _segments[i].type = "error"
                                THEN [_segments[i] EXCEPT
                                        !.error = unknownOpen \o _segments[i].text
                                                      \o unknownClose]
                                ELSE _segments[i]]
    /\ op' = [name |-> "formatDiagnosticHtml"]
    /\ UNCHANGED << _template, _formatterMap, _tokenIndex, _tokens >>

formatDiagnosticHtml ==
    /\ IF _segments = nullSegments
       THEN /\ ret' = Threw("TypeError")
            /\ calls' = << >>
       ELSE /\ ret' = Returned(join(mapDiagnosticHtml(_segments, _formatterMap)))
            /\ calls' = join(mapDiagnosticHtmlCalls(_segments, _formatterMap))
    /\ op' = [name |-> "formatDiagnosticHtml"]
    /\ UNCHANGED << _template, _segments, _formatterMap, _tokenIndex, _tokens >>

\* The same methods as functions of the object: the fields of the object a
\* call is made on, and the fields it leaves (for a render, the value it
\* returns).
this ==
    [_template |-> _template, _segments |-> _segments, _formatterMap |-> _formatterMap,
     _tokens |-> _tokens, _tokenIndex |-> _tokenIndex]

\* setTemplateString that starts over with an empty formatter map.
setTemplateStringOn_newMap(self, template) ==
    LET parsed == _parse(template)
    IN  IF parsed.kind = "throw"
        THEN [self EXCEPT !._template = template, !._formatterMap = {}]
        ELSE [self EXCEPT !._template = template,
                          !._segments = parsed.value,
                          !._tokens = parsed.tokens,
                          !._tokenIndex = parsed.tokenIndex,
                          !._formatterMap = {}]

setTemplateStringOn(self, template) ==
    LET parsed == _parse(template)
    IN  IF parsed.kind = "throw"
        THEN [self EXCEPT !._template = template]
        ELSE [self EXCEPT !._template = template,
                          !._segments = parsed.value,
                          !._tokens = parsed.tokens,
                          !._tokenIndex = parsed.tokenIndex]

addFormatterOn(self, namespace, formatter) ==
    [self EXCEPT !._formatterMap = MapSet(@, toLowerCase(namespace), formatter)]

formatHtmlOn(self) ==
    IF self._segments = nullSegments
    THEN Threw("TypeError")
    ELSE Returned(join(mapHtml(self._segments, self._formatterMap)))

formatDiagnosticHtmlOn(self) ==
    IF self._segments = nullSegments
    THEN Threw("TypeError")
    ELSE Returned(join(mapDiagnosticHtml(self._segments, self._formatterMap)))

\* The templates and the namespaces the host gives to an object it keeps
\* using: every kind of segment, alone and next to the others, with
\* namespaces in both cases, a namespace nobody registers, repeated fields and
\* HTML-sensitive characters.
LifeTemplates ==
    { << >>,
      << "a", "<", "&" >>,
      << "$", "{", "a", ":", "k", "}" >>,
      << "$", "{", "A", ":", "K", "}" >>,
      << "$", "{", "b", ":", "k", "}", "$", "{", "A", ":", "K", "}" >>,
      << "$", "{", "a", ":", "k", "}", "$", "{", "a", ":", "k", "}" >>,
      << "$", "{", "<", ":", "k", "}" >>,
      << "$", "{", "a", "}" >>,
      << "a", "$", "{", "a", "<" >>,
      << "\\", "$", "$", "{", "a", ":", "K", "}", "<" >>,
      << "$", "{", "a", "}", "x", "$", "{", "B", ":", "k", "}" >> }

Namespaces == { << "a" >>, << "A" >>, << "b" >>, << "B" >> }

Next ==
    \/ \E template \in LifeTemplates : setTemplateString(template)
    \/ \E namespace \in Namespaces, formatter \in Formatters : addFormatter(namespace, formatter)
    \/ getTemplateString
    \/ formatHtml
    \/ formatDiagnosticHtml

Spec == Init /\ [][Next]_vars

\* A fresh object is given one template.
NextParse == _template = nullString /\ \E template \in Templates : setTemplateString(template)

SpecParse == Init /\ [][NextParse]_vars

\* setTemplateString on a fresh object, one phase of the loop of _parse at a
\* time. While _parse runs, op is its activation: the template, the local
\* result, where the loop stands (pc: at the test of the while, or between
\* the text phase and the field phase) and the cursor at the start of the
\* iteration.
_parse_lex(template) ==
    LET lexed == lex(template)
    IN  /\ _template = nullString
        /\ op.name = "new"
        /\ _template' = template
        /\ IF lexed.kind = "throw"
           THEN /\ ret' = lexed
                /\ op' = [name |-> "setTemplateString", template |-> template]
                /\ UNCHANGED << _tokens, _tokenIndex >>
           ELSE /\ _tokens' = lexed.value
                /\ _tokenIndex' = 0
                /\ op' = [name |-> "_parse", template |-> template, pc |-> "while",
                          result |-> << >>, start |-> 0]
                /\ ret' = void
        /\ calls' = << >>
        /\ UNCHANGED << _segments, _formatterMap >>

_parse_text ==
    /\ op.name = "_parse"
    /\ op.pc = "while"
    /\ _peekTokenType(_tokens, _tokenIndex) # EOF
    /\ LET t == _processTextStateTokens(_tokens, _tokenIndex)
       IN  /\ _tokenIndex' = t.tokenIndex
           /\ op' = [op EXCEPT !.pc = "field",
                               !.result = @ \o t.segments,
                               !.start = _tokenIndex]
    /\ UNCHANGED << _template, _segments, _formatterMap, _tokens, ret, calls >>

_parse_field ==
    /\ op.name = "_parse"
    /\ op.pc = "field"
    /\ LET f == _processFieldStateTokens(_tokens, _tokenIndex)
       IN  /\ _tokenIndex' = f.tokenIndex
           /\ op' = [op EXCEPT !.pc = "while", !.result = @ \o f.segments]
    /\ UNCHANGED << _template, _segments, _formatterMap, _tokens, ret, calls >>

_parse_return ==
    /\ op.name = "_parse"
    /\ op.pc = "while"
    /\ _peekTokenType(_tokens, _tokenIndex) = EOF
    /\ _segments' = correctColumns(op.result, 1, 0)
    /\ op' = [name |-> "setTemplateString", template |-> op.template]
    /\ ret' = void
    /\ UNCHANGED << _template, _formatterMap, _tokens, _tokenIndex, calls >>

\* The templates the loop is run on: the concatenations of at most MaxPieces
\* pieces, one piece for each kind of token and the whole field.
LoopPieces ==
    { << "a" >>, << ":" >>, << "}" >>, << "$", "{" >>, << "\\", "$" >>,
      << "$", "{", "a", ":", "a", "}" >> }

RECURSIVE LoopStrings(_)
LoopStrings(n) ==
    IF n = 0
    THEN { << >> }
    ELSE LET shorter == LoopStrings(n - 1)
         IN  shorter \cup { s \o p : s \in shorter, p \in LoopPieces }

LoopTemplates == LoopStrings(MaxPieces)

NextLoop ==
    \/ \E template \in LoopTemplates : _parse_lex(template)
    \/ _parse_text
    \/ _parse_field
    \/ _parse_return

SpecLoop == Init /\ [][NextLoop]_vars

\* A call that has started runs on: the phases are the statements of one
\* synchronous method.
FairSpecLoop == SpecLoop /\ WF_vars(_parse_text \/ _parse_field \/ _parse_return)

-----------------------------------------------------------------------------
\* What the properties below speak of.

\* The state right after a call of setTemplateString.
AfterSet == op.name = "setTemplateString"

\* The characters of the template in the half-open column range [from, to).
Slice(from, to) == SubSeq(_template, from + 1, to)

Width(segment) == segment.endColumn - segment.startColumn

\* A string with each \$ replaced by $, reading from the left.
RECURSIVE Unescape(_)
Unescape(s) ==
    IF s = << >>
    THEN << >>
    ELSE IF Len(s) >= 2 /\ s[1] = "\\" /\ s[2] = "$"
         THEN << "$" >> \o Unescape(SubSeq(s, 3, Len(s)))
         ELSE << s[1] >> \o Unescape(Tail(s))

\* The template text a segment stands for.
SourceOf(segment) ==
    CASE segment.type = "text" -> segment.text
      [] segment.type = "field" -> FieldTemplate(segment.namespace, segment.key)
      [] segment.type = "error" -> segment.text

RECURSIVE SumOfWidths(_)
SumOfWidths(segments) ==
    IF segments = << >> THEN 0 ELSE Width(Head(segments)) + SumOfWidths(Tail(segments))

Has(s, c) == \E i \in 1..Len(s) : s[i] = c

\* C1: after setTemplateString the segments are in source order and their
\* column ranges tile the template: the first starts at column 0, each starts
\* where the one before ends, each is wider than 0, the last ends at the
\* length of the template, which is also the sum of the widths; and each
\* segment is what the template holds in its range (for a Text segment, with
\* \$ read as $).
C1_ColumnsTileTemplate ==
    AfterSet =>
        /\ ret = void
        /\ Len(_segments) > 0 => _segments[1].startColumn = 0
        /\ \A i \in 2..Len(_segments) : _segments[i].startColumn = _segments[i - 1].endColumn
        /\ \A i \in 1..Len(_segments) : _segments[i].endColumn > _segments[i].startColumn
        /\ Len(_segments) > 0 => _segments[Len(_segments)].endColumn = Len(_template)
        /\ Len(_segments) = 0 => Len(_template) = 0
        /\ SumOfWidths(_segments) = Len(_template)
        /\ \A i \in 1..Len(_segments) :
              LET raw == Slice(_segments[i].startColumn, _segments[i].endColumn)
              IN  SourceOf(_segments[i]) =
                      IF _segments[i].type = "text" THEN Unescape(raw) ELSE raw

\* A template parsed to a Text segment with an escape, a Field and an Error.
C1_Witness ==
    /\ AfterSet
    /\ Len(_segments) = 3
    /\ _segments[1].type = "text" /\ Width(_segments[1]) > Len(_segments[1].text)
    /\ _segments[2].type = "field"
    /\ _segments[3].type = "error"

NoDollarNoBackslash(s) == ~ Has(s, "$") /\ ~ Has(s, "\\")

OneTextSegment ==
    _segments = << [type |-> "text", text |-> _template,
                    startColumn |-> 0, endColumn |-> Len(_template)] >>

\* C2 as stated: every template with neither $ nor \, the empty one
\* included, parses to exactly one Text segment equal to the template, with
\* the columns [0, length).
C2_Original ==
    AfterSet /\ NoDollarNoBackslash(_template) => ret = void /\ OneTextSegment

\* C2, amended: every non-empty template with neither $ nor \ parses to
\* exactly one Text segment equal to the template, with the columns
\* [0, length); the empty template parses to no segment at all.
C2_PlainTextIsOneSegment ==
    AfterSet /\ NoDollarNoBackslash(_template) =>
        /\ ret = void
        /\ Len(_template) > 0 => OneTextSegment
        /\ Len(_template) = 0 => _segments = << >>

\* A template of three characters, none of them $ or \, among them
\* characters the FIELD rules name.
C2_Witness ==
    /\ AfterSet
    /\ NoDollarNoBackslash(_template)
    /\ Len(_template) = 3
    /\ Has(_template, ":") /\ Has(_template, "}")
    /\ OneTextSegment

\* The column at which the i-th token of the template starts.
RECURSIVE TokenColumn(_)
TokenColumn(i) ==
    IF i = 1 THEN 0 ELSE TokenColumn(i - 1) + Len(_tokens[i - 1].text)

\* The tokens i .. i+4 are those of a well-formed ${ns:key}.
WellFormedAt(i) ==
    /\ i + 4 <= Len(_tokens)
    /\ \A k \in 1..5 : _tokens[i + k - 1].type = fieldTokenTypeList[k]

\* C3 (the claim; the code breaks it): a malformed ${...} run becomes an
\* Error segment (every "${" that opens no well-formed field lies in one) and
\* every well-formed ${ns:key} of the template, also one that directly
\* follows a malformed run, is a Field segment of its own, with its namespace
\* and key, at its columns.
C3_WellFormedFieldsSurvive ==
    AfterSet /\ ret = void =>
        \A i \in 1..Len(_tokens) :
            /\ (_tokens[i].type = OPEN_BRACKET /\ ~ WellFormedAt(i)) =>
                  \E k \in 1..Len(_segments) :
                      /\ _segments[k].type = "error"
                      /\ _segments[k].startColumn <= TokenColumn(i)
                      /\ TokenColumn(i) < _segments[k].endColumn
            /\ WellFormedAt(i) =>
                  \E k \in 1..Len(_segments) :
                      /\ _segments[k].type = "field"
                      /\ _segments[k].namespace = _tokens[i + 1].text
                      /\ _segments[k].key = _tokens[i + 3].text
                      /\ _segments[k].startColumn = TokenColumn(i)

\* The position of the only ":" of s, or 0 when s has none or several.
OnlyColon(s) ==
    IF Cardinality({ i \in 1..Len(s) : s[i] = ":" }) = 1
    THEN CHOOSE i \in 1..Len(s) : s[i] = ":"
    ELSE 0

\* s is ${ns:key} with ns and key non-empty and free of ":" and "}".
IsFieldTemplate(s) ==
    /\ Len(s) >= 6
    /\ s[1] = "$" /\ s[2] = "{" /\ s[Len(s)] = "}"
    /\ ~ Has(SubSeq(s, 1, Len(s) - 1), "}")
    /\ OnlyColon(s) > 3 /\ OnlyColon(s) < Len(s) - 1

\* C4: a template ${ns:key}, with ns and key non-empty and made of
\* characters other than ":" and "}", parses to exactly one Field segment
\* with that namespace and that key, unmodified, and the columns [0, length).
C4_FieldTemplateIsOneField ==
    AfterSet /\ IsFieldTemplate(_template) =>
        /\ ret = void
        /\ _segments = << [type |-> "field",
                           namespace |-> SubSeq(_template, 3, OnlyColon(_template) - 1),
                           key |-> SubSeq(_template, OnlyColon(_template) + 1,
                                          Len(_template) - 1),
                           startColumn |-> 0,
                           endColumn |-> Len(_template)] >>

\* A ${ns:key} whose namespace holds "${" and whose key holds a backslash.
C4_Witness ==
    /\ AfterSet
    /\ IsFieldTemplate(_template)
    /\ Len(_segments) = 1 /\ _segments[1].type = "field"
    /\ _segments[1].namespace = << "$", "{" >>
    /\ Has(_segments[1].key, "\\")

\* s is ${ followed by characters none of which is "}".
IsUnterminatedField(s) ==
    /\ Len(s) >= 2
    /\ s[1] = "$" /\ s[2] = "{"
    /\ ~ Has(s, "}")

\* C5: a template that is ${ followed by characters without a "}" is parsed
\* without an exception, to exactly one Error segment whose text is the whole
\* template.
C5_UnterminatedFieldIsOneError ==
    AfterSet /\ IsUnterminatedField(_template) =>
        /\ ret = void
        /\ _segments = << [type |-> "error",
                           text |-> _template,
                           error |-> << >>,
                           startColumn |-> 0,
                           endColumn |-> Len(_template)] >>

\* An unterminated ${ns:key.
C5_Witness ==
    /\ AfterSet
    /\ IsUnterminatedField(_template)
    /\ Len(_tokens) = 4
    /\ _tokens[3].type = COLON
    /\ Len(_segments) = 1 /\ _segments[1].type = "error"

\* C6: lex never throws: whatever is left of the input, in the state NORMAL
\* and in the state FIELD, a rule of the state matches a non-empty prefix of
\* it; so setTemplateString never fails.
C6_LexerNeverFails ==
    AfterSet =>
        /\ ret = void
        /\ \A k \in 1..Len(_template) :
              \A state \in { NORMAL, FIELD } :
                  LET rest == SubSeq(_template, k, Len(_template))
                  IN  /\ MatchingRules(state, rest) # {}
                      /\ \A i \in MatchingRules(state, rest) :
                            Len(RegExpMatch(rest, LexerStateRules(state)[i].match)) > 0

\* A template lexed with the one-character fallback for a backslash in
\* NORMAL and with a "$" taken as part of a symbol in FIELD.
C6_Witness ==
    /\ AfterSet
    /\ ret = void
    /\ \E i \in 1..Len(_tokens) : _tokens[i] = [type |-> STRING_TOKEN, text |-> << "\\" >>]
    /\ \E i \in 1..Len(_tokens) : _tokens[i].type = SYMBOL /\ Has(_tokens[i].text, "$")

IsTextToken(i) == i >= 1 /\ i <= Len(_tokens) /\ _tokens[i].type \in { STRING_TOKEN, ESCAPE_DOLLAR }

\* The tokens from .. to are a maximal run of literal text.
IsTextRun(from, to) ==
    /\ from <= to
    /\ \A i \in from..to : IsTextToken(i)
    /\ ~ IsTextToken(from - 1)
    /\ ~ IsTextToken(to + 1)

TextRuns == { r \in (1..Len(_tokens)) \X (1..Len(_tokens)) : IsTextRun(r[1], r[2]) }

TextSegments == { k \in 1..Len(_segments) : _segments[k].type = "text" }

\* The number of \$ of a string, reading from the left.
RECURSIVE EscapesIn(_)
EscapesIn(s) ==
    IF s = << >>
    THEN 0
    ELSE IF Len(s) >= 2 /\ s[1] = "\\" /\ s[2] = "$"
         THEN 1 + EscapesIn(SubSeq(s, 3, Len(s)))
         ELSE EscapesIn(Tail(s))

ExampleSegments ==
    << [type |-> "text", text |-> << "H", "e", "l", "l", "o", " " >>,
        startColumn |-> 0, endColumn |-> 6],
       [type |-> "field", namespace |-> << "u", "s", "e", "r" >>,
        key |-> << "n", "a", "m", "e" >>, startColumn |-> 6, endColumn |-> 18],
       [type |-> "text",
        text |-> << ",", " ", "b", "a", "l", "a", "n", "c", "e", ":", " ", "$" >>,
        startColumn |-> 18, endColumn |-> 31],
       [type |-> "field", namespace |-> << "a", "c", "c", "t" >>,
        key |-> << "b", "a", "l" >>, startColumn |-> 31, endColumn |-> 42] >>

\* C7: every maximal run of literal text outside the fields is exactly one
\* Text segment, at the columns of the run, whose text is the run with each
\* \$ replaced by one $ and whose width counts 2 for each \$ and 1 for every
\* other character; there are no other Text segments; and the example
\* Hello ${user:name}, balance: \$${acct:bal} parses to
\* Text("Hello "), Field(user,name), Text(", balance: $"), Field(acct,bal).
C7_LiteralRunsAreTextSegments ==
    AfterSet /\ ret = void =>
        /\ \A r \in TextRuns :
              LET from == TokenColumn(r[1])
                  to == TokenColumn(r[2] + 1)
                  raw == Slice(from, to)
              IN  \E k \in TextSegments :
                      /\ _segments[k].startColumn = from
                      /\ _segments[k].endColumn = to
                      /\ _segments[k].text = Unescape(raw)
                      /\ Width(_segments[k]) = Len(_segments[k].text) + EscapesIn(raw)
        /\ Cardinality(TextSegments) = Cardinality(TextRuns)
        /\ _template = ExampleTemplate => _segments = ExampleSegments

\* A run of three tokens: a lone backslash, a \$ and a lone $.
C7_Witness ==
    /\ AfterSet
    /\ _template = << "\\", "\\", "$", "$" >>
    /\ _segments = << [type |-> "text", text |-> << "\\", "$", "$" >>,
                       startColumn |-> 0, endColumn |-> 4] >>

\* needle occurs in hay.
Contains(hay, needle) ==
    \E k \in 0..(Len(hay) - Len(needle)) : SubSeq(hay, k + 1, k + Len(needle)) = needle

\* Two characters that are the same letter, whatever their case.
SameLetter(c, d) ==
    \/ c = d
    \/ { c, d } \in { { "a", "A" }, { "b", "B" }, { "k", "K" } }

EqualsIgnoreCase(s, t) ==
    /\ Len(s) = Len(t)
    /\ \A i \in 1..Len(s) : SameLetter(s[i], t[i])

\* The formatters registered under a namespace equal to this one but for case.
RegisteredFor(namespace) ==
    { e.value : e \in { x \in _formatterMap : EqualsIgnoreCase(x.key, namespace) } }

HasSegments == _segments # nullSegments

\* A segment plain rendering drops: an Error segment, or a Field whose
\* namespace has no formatter.
IsDropped(segment) ==
    \/ segment.type = "error"
    \/ segment.type = "field" /\ RegisteredFor(segment.namespace) = {}

IsKept(segment) == ~ IsDropped(segment)

\* What the diagnostic marker of a dropped segment names.
NamedByMarker(segment) ==
    IF segment.type = "error" THEN segment.text ELSE segment.namespace

UnknownQuote == << "U", "n", "k", "n", "o", "w", "n", " ", "'" >>

\* C8: rendering does not abort on an unknown namespace or on a malformed
\* segment. In formatHtml a Field whose namespace has no formatter and every
\* Error segment contribute the empty string: the output is that of the
\* remaining segments alone. The output of formatDiagnosticHtml holds, for
\* each such segment, Unknown ' followed by the namespace as written (for the
\* field) or by the raw text (for the Error segment).
C8_UnknownAndErrorDegrade ==
    /\ op.name = "formatHtml" /\ HasSegments =>
          /\ ret.kind = "return"
          /\ ret.value = join(mapHtml(SelectSeq(_segments, IsKept), _formatterMap))
          /\ \A i \in 1..Len(_segments) :
                IsDropped(_segments[i]) => mapHtml(_segments, _formatterMap)[i] = << >>
    /\ op.name = "formatDiagnosticHtml" /\ HasSegments =>
          /\ ret.kind = "return"
          /\ \A i \in 1..Len(_segments) :
                IsDropped(_segments[i]) =>
                    Contains(ret.value, UnknownQuote \o NamedByMarker(_segments[i]))

\* formatHtml of an Error segment, a Text segment and a Field of an unknown
\* namespace, while a formatter is registered for another namespace: only the
\* text is rendered.
C8_Witness ==
    /\ op.name = "formatHtml"
    /\ _formatterMap # {}
    /\ Len(_segments) = 3
    /\ _segments[1].type = "error"
    /\ _segments[3].type = "field" /\ IsDropped(_segments[3])
    /\ ret = Returned(<< "x" >>)

\* The formatHtml calls a plain render of the segments makes: one for each
\* Field whose namespace has a formatter, in the order of the segments, with
\* the key of the segment.
RECURSIVE ExpectedCalls(_)
ExpectedCalls(segments) ==
    IF segments = << >>
    THEN << >>
    ELSE LET segment == Head(segments)
         IN  (IF segment.type = "field" /\ RegisteredFor(segment.namespace) # {}
              THEN << [formatter |-> CHOOSE f \in RegisteredFor(segment.namespace) : TRUE,
                       method |-> "formatHtml",
                       key |-> segment.key] >>
              ELSE << >>)
                 \o ExpectedCalls(Tail(segments))

\* C9: formatter lookup ignores the case of the namespace and only that:
\* after addFormatter(N, f), f is the one formatter of every namespace equal
\* to N but for case, whatever was registered before (the last registration
\* wins), and every Field segment of such a namespace is resolved by f;
\* formatHtml calls formatHtml(key) of the resolved formatter exactly once
\* for each Field occurrence, in order, with the key as written.
C9_NamespaceLookupIgnoresCase ==
    /\ \A namespace \in Namespaces : Cardinality(RegisteredFor(namespace)) <= 1
    /\ op.name = "addFormatter" =>
          /\ \A namespace \in Namespaces :
                EqualsIgnoreCase(namespace, op.namespace) =>
                    /\ RegisteredFor(namespace) = { op.formatter }
                    /\ MapGet(_formatterMap, toLowerCase(namespace)) = op.formatter
          /\ \A i \in 1..Len(_segments) :
                (_segments[i].type = "field"
                    /\ EqualsIgnoreCase(_segments[i].namespace, op.namespace)) =>
                    formatHtmlSegment(_segments[i], _formatterMap).calls =
                        << Call(op.formatter, "formatHtml", _segments[i].key) >>
    /\ op.name = "formatHtml" /\ HasSegments =>
          /\ ret.kind = "return"
          /\ calls = ExpectedCalls(_segments)

\* formatHtml of ${b:k}${A:K} with formatters for both namespaces: two
\* calls, the second for the namespace written in upper case, with the key K
\* in upper case.
C9_Witness ==
    /\ op.name = "formatHtml"
    /\ Len(_segments) = 2
    /\ _segments[2].type = "field" /\ _segments[2].namespace = << "A" >>
    /\ Len(calls) = 2
    /\ calls[2].key = << "K" >>
    /\ calls[1].formatter # calls[2].formatter

\* C10: registration and template content are independent: setTemplateString
\* leaves the formatter map as it is, and addFormatter leaves the template
\* string and the segments as they are.
C10_RegistrationIndependentOfTemplate ==
    [][/\ op'.name = "setTemplateString" => _formatterMap' = _formatterMap
       /\ op'.name = "addFormatter" => /\ _template' = _template
                                       /\ _segments' = _segments]_vars

\* A template with two fields set while two formatters are registered.
C10_Witness ==
    /\ AfterSet
    /\ Cardinality(_formatterMap) = 2
    /\ Len(_segments) = 2
    /\ _segments[1].type = "field" /\ _segments[2].type = "field"


\* What holds of the template string and the segments in every state: both
\* are null, or the segments are the parse of the template string; the
\* template string is the argument of the setTemplateString just made, and
\* getTemplateString returns it.
SegmentsFollowTemplate ==
    /\ _template = nullString <=> _segments = nullSegments
    /\ _template # nullString =>
          /\ _parse(_template).kind = "return"
          /\ _segments = _parse(_template).value
    /\ AfterSet => _template = op.template
    /\ op.name = "getTemplateString" => ret = Returned(_template)

\* C11: in every reachable state the segments are exactly the parse of the
\* string getTemplateString returns, which is the last string set (no other
\* call changes it), whatever templates were set before; before the first
\* setTemplateString both are null. No state has a new template string with
\* the segments of an old one.
C11_SegmentsAreParseOfTemplate ==
    /\ []SegmentsFollowTemplate
    /\ [][op'.name # "setTemplateString" => _template' = _template]_vars

\* getTemplateString returns a<& while the segments are its one Text segment
\* and a formatter is registered.
C11_Witness ==
    /\ op.name = "getTemplateString"
    /\ ret = Returned(<< "a", "<", "&" >>)
    /\ Len(_segments) = 1
    /\ _segments[1].type = "text"
    /\ _formatterMap # {}


\* The character a hexadecimal character reference &#xHL; stands for.
CharOfHex(h, l) ==
    CASE h = "2" /\ l = "6" -> "&"
      [] h = "3" /\ l = "C" -> "<"
      [] h = "3" /\ l = "E" -> ">"
      [] h = "2" /\ l = "2" -> "\""
      [] h = "2" /\ l = "7" -> "'"
      [] OTHER -> "?"

\* What a browser shows for a piece of HTML text: every character reference
\* replaced by its character.
RECURSIVE Decode(_)
Decode(e) ==
    IF e = << >>
    THEN << >>
    ELSE IF Len(e) >= 6 /\ SubSeq(e, 1, 3) = << "&", "#", "x" >> /\ e[6] = ";"
         THEN << CharOfHex(e[4], e[5]) >> \o Decode(SubSeq(e, 7, Len(e)))
         ELSE << e[1] >> \o Decode(Tail(e))

\* A piece of HTML with no markup of its own: no < and no & other than the
\* start of a character reference.
NoRawMarkup(e) ==
    \A i \in 1..Len(e) :
        /\ e[i] # "<"
        /\ e[i] = "&" => i < Len(e) /\ e[i + 1] = "#"

\* The part of a string between a prefix and a suffix, or null.
Between(prefix, s, suffix) ==
    IF /\ Len(s) >= Len(prefix) + Len(suffix)
       /\ SubSeq(s, 1, Len(prefix)) = prefix
       /\ SubSeq(s, Len(s) - Len(suffix) + 1, Len(s)) = suffix
    THEN SubSeq(s, Len(prefix) + 1, Len(s) - Len(suffix))
    ELSE nullString

\* An escaped form of a text: free of markup, and read back as the text.
IsEscapedFormOf(e, text) == e # nullString /\ NoRawMarkup(e) /\ Decode(e) = text

\* The formatter a Field segment resolves to whose value the render shows:
\* in the diagnostic render it must not report an error for the key.
ShownBy(segment, diagnostic) ==
    { f \in RegisteredFor(segment.namespace) :
        diagnostic => FieldFormatter_getErrorMessage(f, segment.key) = nullString }

\* C12: in both renders the output is the concatenation of the segments'
\* parts; the part of a Text segment is its text HTML-escaped (a < or & of
\* the literal text is never raw; the diagnostic render wraps it in the
\* segment_text span), and the part of a Field whose value is shown is the
\* string its formatter's formatHtml(key) returns, verbatim (wrapped in the
\* segment_field span by the diagnostic render).
C12_TextEscapedFormatterVerbatim ==
    /\ op.name = "formatHtml" /\ HasSegments =>
          LET parts == mapHtml(_segments, _formatterMap)
          IN  /\ ret = Returned(join(parts))
              /\ \A i \in 1..Len(_segments) :
                    /\ _segments[i].type = "text" =>
                          IsEscapedFormOf(parts[i], _segments[i].text)
                    /\ _segments[i].type = "field" =>
                          \A f \in ShownBy(_segments[i], FALSE) :
                              parts[i] = FieldFormatter_formatHtml(f, _segments[i].key)
    /\ op.name = "formatDiagnosticHtml" /\ HasSegments =>
          LET parts == mapDiagnosticHtml(_segments, _formatterMap)
          IN  /\ ret = Returned(join(parts))
              /\ \A i \in 1..Len(_segments) :
                    /\ _segments[i].type = "text" =>
                          IsEscapedFormOf(Between(spanText, parts[i], spanEnd),
                                          _segments[i].text)
                    /\ _segments[i].type = "field" =>
                          \A f \in ShownBy(_segments[i], TRUE) :
                              Between(spanField, parts[i], spanEnd) =
                                  FieldFormatter_formatHtml(f, _segments[i].key)

\* The diagnostic render of \$${a:K}< with the formatter F1 for a: the text
\* < is escaped and the <b> of the formatter is not.
C12_Witness ==
    /\ op.name = "formatDiagnosticHtml"
    /\ Len(_segments) = 3
    /\ _segments[3].type = "text" /\ _segments[3].text = << "<" >>
    /\ _segments[2].type = "field"
    /\ ShownBy(_segments[2], TRUE) = { "F1" }
    /\ Contains(ret.value, << "<", "b", ">", "K", "<", "/" >>)
    /\ Contains(ret.value, << ">", "&", "#", "x", "3", "C", ";", "<", "/" >>)


\* C13: no < or & written in the template reaches the output of formatHtml
\* or of formatDiagnosticHtml unescaped, whatever the kind of the segment:
\* the part of a Text segment is its escaped text, and in the diagnostic
\* render the marker of a Field of an unknown namespace and of an Error
\* segment quotes the escaped namespace and the escaped raw text.
C13_TemplateCharactersEscaped ==
    /\ op.name = "formatHtml" /\ HasSegments =>
          \A i \in 1..Len(_segments) :
              ShownBy(_segments[i], FALSE) = {} =>
                  NoRawMarkup(mapHtml(_segments, _formatterMap)[i])
    /\ op.name = "formatDiagnosticHtml" /\ HasSegments =>
          \A i \in 1..Len(_segments) :
              LET part == mapDiagnosticHtml(_segments, _formatterMap)[i]
              IN  /\ _segments[i].type = "text" =>
                        IsEscapedFormOf(Between(spanText, part, spanEnd),
                                        _segments[i].text)
                  /\ IsDropped(_segments[i]) =>
                        IsEscapedFormOf(Between(spanError \o UnknownQuote, part,
                                                << "'" >> \o spanEnd),
                                        NamedByMarker(_segments[i]))


\* <span class="segment_LABEL">BODY</span>
Container(label, body) ==
    << "<", "s", "p", "a", "n", " ", "c", "l", "a", "s", "s", "=", "\"",
       "s", "e", "g", "m", "e", "n", "t", "_" >>
        \o label \o << "\"", ">" >> \o body \o << "<", "/", "s", "p", "a", "n", ">" >>

LabelText == << "t", "e", "x", "t" >>

LabelField == << "f", "i", "e", "l", "d" >>

LabelError == << "e", "r", "r", "o", "r" >>

\* The error message the formatter registered for the namespace of a Field
\* segment gives for its key, or null.
ReportedError(segment) ==
    LET f == CHOOSE f \in RegisteredFor(segment.namespace) : TRUE
    IN  FieldFormatter_getErrorMessage(f, segment.key)

\* The one container the diagnostic render owes to a segment.
ContainerOf(segment) ==
    CASE segment.type = "text" ->
            Container(LabelText, heEncode(segment.text))
      [] IsDropped(segment) ->
            Container(LabelError, UnknownQuote \o NamedByMarker(segment) \o << "'" >>)
      [] OTHER ->
            IF ReportedError(segment) # nullString
            THEN Container(LabelError, ReportedError(segment))
            ELSE Container(LabelField,
                           FieldFormatter_formatHtml(
                               CHOOSE f \in RegisteredFor(segment.namespace) : TRUE,
                               segment.key))

RECURSIVE Containers(_)
Containers(segments) ==
    IF segments = << >>
    THEN << >>
    ELSE ContainerOf(Head(segments)) \o Containers(Tail(segments))

\* C14: the output of formatDiagnosticHtml is the concatenation, in the
\* order of the segments, of exactly one labeled container for each segment:
\* segment_text for a Text segment; for a Field with a registered namespace
\* segment_error holding the message when getErrorMessage(key) returns one
\* and segment_field holding formatHtml(key) otherwise; segment_error for a
\* Field of an unknown namespace and for an Error segment. When the
\* formatter reports an error the value is not rendered: formatHtml is not
\* called for that key.
C14_DiagnosticIsOneContainerPerSegment ==
    op.name = "formatDiagnosticHtml" /\ HasSegments =>
        /\ ret = Returned(Containers(_segments))
        /\ \A i \in 1..Len(calls) :
              calls[i].method = "formatHtml" =>
                  FieldFormatter_getErrorMessage(calls[i].formatter, calls[i].key)
                      = nullString

\* The diagnostic render of ${b:k}${A:K} where the formatter of a reports an
\* error for the key K and the formatter of b does not: a segment_field
\* container, then a segment_error container with the message, and no
\* formatHtml call for K.
C14_Witness ==
    /\ op.name = "formatDiagnosticHtml"
    /\ Len(_segments) = 2
    /\ _segments[1].type = "field" /\ IsKept(_segments[1])
    /\ ReportedError(_segments[1]) = nullString
    /\ _segments[2].type = "field" /\ IsKept(_segments[2])
    /\ ReportedError(_segments[2]) # nullString
    /\ Contains(ret.value, Container(LabelError, ReportedError(_segments[2])))
    /\ Len(calls) = 3


\* Two objects a host cannot tell apart: the same template string, segments
\* and formatter map, and the same output of both renders.
SameObservable(x, y) ==
    /\ x._template = y._template
    /\ x._segments = y._segments
    /\ x._formatterMap = y._formatterMap
    /\ formatHtmlOn(x) = formatHtmlOn(y)
    /\ formatDiagnosticHtmlOn(x) = formatDiagnosticHtmlOn(y)

\* From the object as it is now, both orders of the two calls end alike.
Commute ==
    /\ \A template \in LifeTemplates, namespace \in Namespaces, formatter \in Formatters :
          SameObservable(
              setTemplateStringOn(addFormatterOn(this, namespace, formatter), template),
              addFormatterOn(setTemplateStringOn(this, template), namespace, formatter))
    /\ \A n1 \in Namespaces, n2 \in Namespaces, f1 \in Formatters, f2 \in Formatters :
          ~ EqualsIgnoreCase(n1, n2) =>
              SameObservable(
                  addFormatterOn(addFormatterOn(this, n1, f1), n2, f2),
                  addFormatterOn(addFormatterOn(this, n2, f2), n1, f1))

\* Every call changes the object, and returns, as the function of its
\* method says.
CallsAreTheirFunctions ==
    /\ op'.name = "setTemplateString" => this' = setTemplateStringOn(this, op'.template)
    /\ op'.name = "addFormatter" =>
          this' = addFormatterOn(this, op'.namespace, op'.formatter)
    /\ op'.name = "formatHtml" => this' = this /\ ret' = formatHtmlOn(this)
    /\ op'.name = "formatDiagnosticHtml" =>
          this' = this /\ ret' = formatDiagnosticHtmlOn(this)

\* C15: addFormatter and setTemplateString commute: from every reachable
\* state, addFormatter(N, f) then setTemplateString(T) and the two calls in
\* the other order give the same template string, segments and formatter
\* map, and so the same output of formatHtml and of formatDiagnosticHtml.
\* Two addFormatter calls for namespaces that differ ignoring case commute
\* as well.
C15_RegistrationAndTemplateCommute ==
    /\ []Commute
    /\ [][CallsAreTheirFunctions]_vars

\* A formatter registered after the template was set resolves a field of
\* the template, as it would had it been registered before.
C15_Witness ==
    /\ op.name = "addFormatter"
    /\ HasSegments
    /\ \E i \in 1..Len(_segments) :
          /\ _segments[i].type = "field"
          /\ RegisteredFor(_segments[i].namespace) = { op.formatter }
    /\ this = setTemplateStringOn(addFormatterOn(this, op.namespace, op.formatter),
                                  _template)
    /\ Cardinality(_formatterMap) = 2


InParse == op.name = "_parse"

\* The steps of the loop of _parse.
TextPhaseStep == InParse /\ op.pc = "while" /\ op'.name = "_parse"

FieldPhaseStep == InParse /\ op.pc = "field"

\* The segment a phase has just added to the result, if it added one.
Added == SubSeq(op'.result, Len(op.result) + 1, Len(op'.result))

\* What each phase does to the cursor.
PhasesAdvance ==
    /\ TextPhaseStep =>
          /\ _tokenIndex' >= _tokenIndex
          /\ _tokenIndex' = _tokenIndex =>
                _tokens[_tokenIndex + 1].type \notin { STRING_TOKEN, ESCAPE_DOLLAR }
    /\ FieldPhaseStep =>
          /\ _tokenIndex' > op.start
          /\ _tokenIndex = op.start => _tokenIndex' >= _tokenIndex + 1
          /\ \A k \in 1..Len(Added) :
                /\ Added[k].type = "field" => _tokenIndex' = _tokenIndex + 5
                /\ Added[k].type = "error" => _tokenIndex' >= _tokenIndex + 1
          /\ Added = << >> => _tokenIndex' = _tokenIndex /\ _tokenIndex = Len(_tokens)
    /\ InParse /\ op'.name = "setTemplateString" =>
          /\ _tokenIndex = Len(_tokens)
          /\ _segments' = _parse(op.template).value

\* C16: the loop of _parse terminates, because each iteration strictly
\* advances the cursor: the text phase consumes zero tokens only when the
\* next token is not a text token, and then the field phase consumes at
\* least one (five for a complete field, one or more for a bad one); the
\* cursor never exceeds the number of tokens.
C16_ParseLoopTerminates ==
    /\ [](InParse => _tokenIndex \in 0..Len(_tokens))
    /\ [][PhasesAdvance]_vars
    /\ InParse ~> op.name = "setTemplateString"

\* Two complete fields in a row: the text phase of the second iteration
\* consumed nothing and its field phase consumed five tokens.
C16_Witness ==
    /\ InParse
    /\ op.pc = "while"
    /\ op.start = 5
    /\ _tokenIndex = 10
    /\ Len(op.result) = 2
    /\ op.result[2].type = "field"


IsRender(o) == o.name \in { "formatHtml", "formatDiagnosticHtml" }

\* C17: formatHtml and formatDiagnosticHtml are pure with respect to the
\* object: a render leaves the template string, the segments (text,
\* namespace, key, error and columns of each) and the formatter map as they
\* were, and what it returns is determined by them alone, so a render that
\* follows renders only returns what the earlier render of its kind
\* returned.
C17_RendersArePure ==
    [][/\ IsRender(op') =>
            /\ _template' = _template
            /\ _segments' = _segments
            /\ _formatterMap' = _formatterMap
       /\ op'.name = "formatHtml" => ret' = formatHtmlOn(this')
       /\ op'.name = "formatDiagnosticHtml" => ret' = formatDiagnosticHtmlOn(this')
       /\ IsRender(op) /\ op'.name = op.name => ret' = ret]_vars

\* After the diagnostic render of a template with an Error segment, the
\* error field of the segment is still empty.
C17_Witness ==
    /\ op.name = "formatDiagnosticHtml"
    /\ ret.kind = "return"
    /\ _formatterMap # {}
    /\ \E i \in 1..Len(_segments) :
          /\ _segments[i].type = "error"
          /\ _segments[i].error = << >>
          /\ Contains(ret.value, unknownOpen \o _segments[i].text)


\* C18: formatHtml and formatDiagnosticHtml return a string, without
\* failing, in every reachable state, the freshly constructed object on which
\* setTemplateString was never called included.
C18_RendersNeverFail ==
    IsRender(op) => ret.kind = "return"


\* The texts of the tokens, one after the other.
RECURSIVE TokenTexts(_)
TokenTexts(tokens) ==
    IF tokens = << >>
    THEN << >>
    ELSE Head(tokens).text \o TokenTexts(Tail(tokens))

IsBracket(token) == token.type \in { OPEN_BRACKET, CLOSE_BRACKET }

\* The i-th token comes after an OPEN_BRACKET with no CLOSE_BRACKET between.
InsideBrackets(i) ==
    \E j \in 1..(i - 1) :
        /\ _tokens[j].type = OPEN_BRACKET
        /\ \A k \in (j + 1)..(i - 1) : _tokens[k].type # CLOSE_BRACKET

\* C19: the token sequence of the lexer is lossless and well-bracketed:
\* every token has a non-empty text and the texts, concatenated in order, are
\* the input; OPEN_BRACKET and CLOSE_BRACKET tokens strictly alternate,
\* starting with OPEN_BRACKET; SYMBOL, COLON and CLOSE_BRACKET tokens occur
\* only after an OPEN_BRACKET with no CLOSE_BRACKET since, and STRING and
\* ESCAPE_DOLLAR tokens never occur there.
C19_TokensLosslessWellBracketed ==
    AfterSet =>
        /\ ret = void
        /\ _tokens = lex(_template).value
        /\ \A i \in 1..Len(_tokens) : _tokens[i].text # << >>
        /\ TokenTexts(_tokens) = _template
        /\ LET brackets == SelectSeq(_tokens, IsBracket)
           IN  \A k \in 1..Len(brackets) :
                   brackets[k].type = IF k % 2 = 1 THEN OPEN_BRACKET ELSE CLOSE_BRACKET
        /\ \A i \in 1..Len(_tokens) :
              /\ _tokens[i].type \in { SYMBOL, COLON, CLOSE_BRACKET } => InsideBrackets(i)
              /\ _tokens[i].type \in { STRING_TOKEN, ESCAPE_DOLLAR } => ~ InsideBrackets(i)

\* The template ${a:a} followed by }: lexes to the five tokens of a field and
\* a STRING token made of the two characters that are delimiters inside a
\* field.
C19_Witness ==
    /\ AfterSet
    /\ Len(_tokens) = 6
    /\ _tokens[1].type = OPEN_BRACKET
    /\ _tokens[5].type = CLOSE_BRACKET
    /\ _tokens[6] = [type |-> STRING_TOKEN, text |-> << "}", ":" >>]


StartsWith(s, prefix) == Len(s) >= Len(prefix) /\ SubSeq(s, 1, Len(prefix)) = prefix

EndsWith(s, suffix) ==
    Len(s) >= Len(suffix) /\ SubSeq(s, Len(s) - Len(suffix) + 1, Len(s)) = suffix

\* C20: the field phase always starts at an OPEN_BRACKET token, so the text
\* of every Error segment begins with ${ and the source text of every Field
\* segment begins with ${ and ends with }; no two Text segments are adjacent
\* and no two Error segments are adjacent (an Error segment is followed by a
\* Text segment or by the end); no segment has an empty text or a zero
\* width.
C20_SegmentsWellShaped ==
    /\ InParse /\ op.pc = "field" /\ _tokenIndex < Len(_tokens) =>
          _tokens[_tokenIndex + 1].type = OPEN_BRACKET
    /\ AfterSet =>
          \A i \in 1..Len(_segments) :
              LET segment == _segments[i]
                  source == Slice(segment.startColumn, segment.endColumn)
              IN  /\ Width(segment) > 0
                  /\ segment.type = "text" =>
                        /\ segment.text # << >>
                        /\ i < Len(_segments) => _segments[i + 1].type # "text"
                  /\ segment.type = "error" =>
                        /\ StartsWith(segment.text, << "$", "{" >>)
                        /\ source = segment.text
                        /\ i < Len(_segments) => _segments[i + 1].type = "text"
                  /\ segment.type = "field" =>
                        /\ StartsWith(source, << "$", "{" >>)
                        /\ EndsWith(source, << "}" >>)
                        /\ segment.namespace # << >>
                        /\ segment.key # << >>

\* ${}a: an Error segment that begins with ${ and the Text segment that
\* ends it.
C20_Witness ==
    /\ AfterSet
    /\ Len(_segments) = 2
    /\ _segments[1].type = "error" /\ _segments[1].text = << "$", "{", "}" >>
    /\ _segments[2].type = "text" /\ _segments[2].text = << "a" >>

=============================================================================
